---- MODULE Spec2Model ----
(***************************************************************************)
(* A model of coingecko.py: a command-line tool that prints the price and  *)
(* market data of a crypto asset (one argument) or converts an amount of   *)
(* JPY, USD or a crypto asset into a target asset (two arguments).         *)
(*                                                                         *)
(* Conventions.                                                            *)
(*  - A Python str is a sequence of one-character strings, so that upper,  *)
(*    lower and the regular expression of the amount parser are computed   *)
(*    character by character.                                              *)
(*  - An Optional value is a sequence of length at most one: None is <<>>  *)
(*    and a present value v is <<v>>.                                      *)
(*  - A Python dict is a function whose DOMAIN is the set of its keys.     *)
(*  - A float is an exact non-negative rational [num, den].                *)
(*  - A line of standard output is a record naming the print statement     *)
(*    that wrote it and the values handed to it.                           *)
(***************************************************************************)
EXTENDS Integers, Sequences, FiniteSets, TLC

VARIABLES
    argv,           \* sys.argv[1:], a sequence of strings
    pc,             \* where the invocation stands
    calls,          \* the gateway calls issued so far, in order, with their outcome
    stdout,         \* the lines written to standard output
    stderr,         \* the messages written to the error stream
    exit_status,    \* None while running, then the process exit status
    path,           \* the branch main / convert_currency took
    parsed,         \* the result of parse_amount_and_currency
    coin_id,        \* the identifier of the displayed / target asset
    from_coin_id,   \* the identifier of the source asset (crypto-to-crypto)
    coin_data,      \* data[coin_id] of the spot-price response (display path)
    market_data,    \* the value get_market_data returned
    quote,          \* the value the last get_price returned
    from_usd_price, \* the source asset's USD price (crypto-to-crypto)
    crypto_amount   \* the quantity handed to format_crypto_amount

vars == <<argv, pc, calls, stdout, stderr, exit_status, path, parsed, coin_id,
          from_coin_id, coin_data, market_data, quote, from_usd_price, crypto_amount>>

-----------------------------------------------------------------------------
(* Bounds of the model *)

\* the longest argument the parser specification enumerates exhaustively
MaxArgLen == 4

\* how far around 0, 0.0001 and 1 (in units of 10^-8) the formatter
\* specification enumerates quantities
FormatWindow == 60

-----------------------------------------------------------------------------
(* Strings *)

None == <<>>

LowerChars == <<"a","b","c","d","e","f","g","h","i","j","k","l","m","n","o","p","q","r","s","t","u","v","w","x","y","z">>

UpperChars == <<"A","B","C","D","E","F","G","H","I","J","K","L","M","N","O","P","Q","R","S","T","U","V","W","X","Y","Z">>

DigitChars == <<"0","1","2","3","4","5","6","7","8","9">>

IsLowerChar(c) == \E i \in 1..26 : LowerChars[i] = c

IsUpperChar(c) == \E i \in 1..26 : UpperChars[i] = c

IsDigitChar(c) == \E i \in 1..10 : DigitChars[i] = c

DigitValue(c) == (CHOOSE i \in 1..10 : DigitChars[i] = c) - 1

CharUpper(c) ==
    IF IsLowerChar(c) THEN UpperChars[CHOOSE i \in 1..26 : LowerChars[i] = c] ELSE c

CharLower(c) ==
    IF IsUpperChar(c) THEN LowerChars[CHOOSE i \in 1..26 : UpperChars[i] = c] ELSE c

\* str.upper()
RECURSIVE upper(_)
upper(s) == IF s = <<>> THEN <<>> ELSE <<CharUpper(Head(s))>> \o upper(Tail(s))

\* str.lower()
RECURSIVE lower(_)
lower(s) == IF s = <<>> THEN <<>> ELSE <<CharLower(Head(s))>> \o lower(Tail(s))

-----------------------------------------------------------------------------
(* The static table and the symbol resolver *)

\* COIN_MAPPING as the set of its (ticker, identifier) items
COIN_MAPPING ==
    { <<<<"E","T","H">>,   <<"e","t","h","e","r","e","u","m">>>>,
      <<<<"B","T","C">>,   <<"b","i","t","c","o","i","n">>>>,
      <<<<"U","S","D","C">>,  <<"u","s","d","-","c","o","i","n">>>>,
      <<<<"U","S","D","T">>,  <<"t","e","t","h","e","r">>>>,
      <<<<"B","N","B">>,   <<"b","i","n","a","n","c","e","c","o","i","n">>>>,
      <<<<"S","O","L">>,   <<"s","o","l","a","n","a">>>>,
      <<<<"X","R","P">>,   <<"r","i","p","p","l","e">>>>,
      <<<<"A","D","A">>,   <<"c","a","r","d","a","n","o">>>>,
      <<<<"D","O","G","E">>,  <<"d","o","g","e","c","o","i","n">>>>,
      <<<<"D","O","T">>,   <<"p","o","l","k","a","d","o","t">>>>,
      <<<<"M","A","T","I","C">>, <<"m","a","t","i","c","-","n","e","t","w","o","r","k">>>>,
      <<<<"A","V","A","X">>,  <<"a","v","a","l","a","n","c","h","e","-","2">>>>,
      <<<<"L","I","N","K">>,  <<"c","h","a","i","n","l","i","n","k">>>>,
      <<<<"U","N","I">>,   <<"u","n","i","s","w","a","p">>>>,
      <<<<"A","T","O","M">>,  <<"c","o","s","m","o","s">>>>,
      <<<<"X","M","R">>,   <<"m","o","n","e","r","o">>>>,
      <<<<"H","Y","P","E">>,  <<"h","y","p","e","r","l","i","q","u","i","d">>>>,
      <<<<"R","I","S","E">>,  <<"s","u","n","r","i","s","e">>>>,
      <<<<"A","S","T","R">>,  <<"a","s","t","a","r">>>>,
      <<<<"X","Y","M">>,   <<"s","y","m","b","o","l">>>>,
      <<<<"L","O","O","T">>,  <<"l","o","o","t","c","o","i","n">>>>,
      <<<<"J","P","Y","C">>,  <<"j","p","y","c">>>> }

\* key in COIN_MAPPING
InMappingKeys(k) == \E e \in COIN_MAPPING : e[1] = k

\* value in COIN_MAPPING.values()
InMappingValues(v) == \E e \in COIN_MAPPING : e[2] = v

\* COIN_MAPPING.get(coin_name.upper(), coin_name.lower())
get_coin_id(coin_name) ==
    IF InMappingKeys(upper(coin_name))
    THEN (CHOOSE e \in COIN_MAPPING : e[1] = upper(coin_name))[2]
    ELSE lower(coin_name)

-----------------------------------------------------------------------------
(* The amount parser *)

\* the length of the longest prefix of s, from position i on, whose
\* characters all satisfy the class (a greedy character-class repetition)
RECURSIVE RunDigitsCommas(_, _)
RunDigitsCommas(s, i) ==
    IF i <= Len(s) /\ (IsDigitChar(s[i]) \/ s[i] = ",")
    THEN 1 + RunDigitsCommas(s, i + 1) ELSE 0

RECURSIVE RunDigits(_, _)
RunDigits(s, i) ==
    IF i <= Len(s) /\ IsDigitChar(s[i]) THEN 1 + RunDigits(s, i + 1) ELSE 0

RECURSIVE RunUpper(_, _)
RunUpper(s, i) ==
    IF i <= Len(s) /\ IsUpperChar(s[i]) THEN 1 + RunUpper(s, i + 1) ELSE 0

\* ([\d,]+\.?\d*)([A-Z]+) matched against s from its start up to position
\* last: the end of group 1, or 0 when there is no match.  The classes that
\* follow one another are disjoint where backtracking could matter, so the
\* greedy scan decides the match.
MatchGroups(s, last) ==
    LET a == RunDigitsCommas(s, 1)
        b == IF a + 1 <= Len(s) /\ s[a + 1] = "." THEN a + 1 ELSE a
        c == b + RunDigits(s, b + 1)
        d == c + RunUpper(s, c + 1)
    IN  IF a >= 1 /\ d > c /\ d = last THEN c ELSE 0

\* re.match(r'^([\d,]+\.?\d*)([A-Z]+)$', s): without re.MULTILINE, $ matches
\* at the end of the string and also just before a newline that ends it.
\* The result is <<end of group 1, end of group 2>>, or None.
ReMatch(s) ==
    IF MatchGroups(s, Len(s)) > 0
    THEN << <<MatchGroups(s, Len(s)), Len(s)>> >>
    ELSE IF Len(s) > 0 /\ s[Len(s)] = "\n" /\ MatchGroups(s, Len(s) - 1) > 0
    THEN << <<MatchGroups(s, Len(s) - 1), Len(s) - 1>> >>
    ELSE None

\* str.replace(',', '')
RECURSIVE RemoveCommas(_)
RemoveCommas(s) ==
    IF s = <<>> THEN <<>>
    ELSE IF Head(s) = "," THEN RemoveCommas(Tail(s))
    ELSE <<Head(s)>> \o RemoveCommas(Tail(s))

\* the number a run of decimal digits denotes (0 for the empty run)
RECURSIVE DigitsValue(_)
DigitsValue(s) ==
    IF s = <<>> THEN 0
    ELSE 10 * DigitsValue(SubSeq(s, 1, Len(s) - 1)) + DigitValue(s[Len(s)])

\* float(amount_str) for a string of digits with at most one decimal point:
\* ValueError (None) when the string holds no digit, otherwise the rational
\* it denotes
ToFloat(amount_str) ==
    LET p    == IF \E i \in 1..Len(amount_str) : amount_str[i] = "."
                THEN CHOOSE i \in 1..Len(amount_str) : amount_str[i] = "."
                ELSE Len(amount_str) + 1
        ip   == SubSeq(amount_str, 1, p - 1)
        fp   == SubSeq(amount_str, p + 1, Len(amount_str))
    IN  IF ip \o fp = <<>> THEN None
        ELSE << [num |-> DigitsValue(ip \o fp), den |-> 10 ^ Len(fp)] >>

\* the pair (None, None)
NoneNone == [amount |-> None, currency |-> None]

parse_amount_and_currency(arg) ==
    LET s == upper(arg)
        m == ReMatch(s)
    IN  IF m = None THEN NoneNone
        ELSE LET amount_str == RemoveCommas(SubSeq(s, 1, m[1][1]))
                 currency   == SubSeq(s, m[1][1] + 1, m[1][2])
             IN  IF ToFloat(amount_str) = None THEN NoneNone
                 ELSE [amount |-> ToFloat(amount_str), currency |-> <<currency>>]

-----------------------------------------------------------------------------
(* The formatter of crypto quantities *)

\* <<floor(r * 10^k / den), the remainder>> for 0 <= r < den, by long division
RECURSIVE LongDiv(_, _, _)
LongDiv(r, den, k) ==
    IF k = 0 THEN <<0, r>>
    ELSE LET p == LongDiv(r, den, k - 1)
         IN  <<p[1] * 10 + ((p[2] * 10) \div den), (p[2] * 10) % den>>

\* the decimal digits of a natural number
RECURSIVE NatStr(_)
NatStr(n) ==
    IF n < 10 THEN <<DigitChars[n + 1]>>
    ELSE NatStr(n \div 10) \o <<DigitChars[(n % 10) + 1]>>

\* the k low decimal digits of n, zero-padded
RECURSIVE PadStr(_, _)
PadStr(n, k) ==
    IF k = 0 THEN <<>>
    ELSE PadStr(n \div 10, k - 1) \o <<DigitChars[(n % 10) + 1]>>

\* f"{num/den:.{d}f}": the value rounded to d decimals, all d digits kept.
\* The result is the set of strings the build can produce: one string,
\* except on an exact decimal tie, where the binary float nearest to the
\* value lies on either side of the tie and both roundings are possible.
FixedPoint(num, den, d) ==
    LET ld == LongDiv(num % den, den, d)
        q  == (num \div den) * (10 ^ d) + ld[1]
        qs == IF 2 * ld[2] > den THEN {q + 1}
              ELSE IF 2 * ld[2] = den THEN {q, q + 1}
              ELSE {q}
    IN  { NatStr(r \div (10 ^ d)) \o <<".">> \o PadStr(r % (10 ^ d), d) : r \in qs }

\* num/den < 0.0001, that is floor(num/den * 10^4) = 0
BelowTenThousandth(num, den) ==
    (num \div den) = 0 /\ LongDiv(num % den, den, 4)[1] = 0

\* a mutant of the formatter: the 8-decimal band reaches up to 0.0001 included
format_crypto_amount_band_off_by_one(num, den, coin_name) ==
    IF BelowTenThousandth(num, den)
       \/ ((num \div den) = 0 /\ LongDiv(num % den, den, 4) = <<1, 0>>)
    THEN { t \o coin_name : t \in FixedPoint(num, den, 8) }
    ELSE IF num < den
    THEN { t \o coin_name : t \in FixedPoint(num, den, 6) }
    ELSE { t \o coin_name : t \in FixedPoint(num, den, 2) }

\* format_crypto_amount(num/den, coin_name)
format_crypto_amount(num, den, coin_name) ==
    IF BelowTenThousandth(num, den)
    THEN { t \o coin_name : t \in FixedPoint(num, den, 8) }
    ELSE IF num < den
    THEN { t \o coin_name : t \in FixedPoint(num, den, 6) }
    ELSE { t \o coin_name : t \in FixedPoint(num, den, 2) }

-----------------------------------------------------------------------------
(* The price gateway: the responses the two endpoints can give *)

\* the prices a spot-price response can carry
Prices == {0, 2000, 50000, 500000}

\* the values an optional market statistic can carry
Stats == {0, 1500000}

\* every dict with keys among K and values among V
Dicts(K, V) == UNION { [D -> V] : D \in SUBSET K }

\* dict.get(key)
Get(d, k) == IF k \in DOMAIN d THEN <<d[k]>> ELSE None

\* A response of simple/price for one identifier: a transport or HTTP
\* failure (kind "error"), or the decoded body, of which the model keeps
\* data.get(coin_id): None when the identifier is not in the body.
Response(kind, entry) == [kind |-> kind, entry |-> entry]

\* responses to get_price's request (vs_currencies only)
PriceResponses ==
    { Response("error", None), Response("ok", None) }
        \cup { Response("ok", <<d>>) : d \in Dicts({"usd", "jpy"}, Prices) }

\* responses to get_market_data's spot request (market cap and volume included)
MarketResponses ==
    { Response("error", None), Response("ok", None) }
        \cup { Response("ok", <<p @@ m>>) :
                 p \in Dicts({"usd", "jpy"}, {0, 2000}),
                 m \in Dicts({"usd_market_cap", "jpy_market_cap",
                              "usd_24h_vol", "jpy_24h_vol"}, Stats) }

\* A response of coins/{id}: a failure, or the decoded body with its name,
\* its symbol and the market_data entries the program reads
\* (fully_diluted_valuation.usd/.jpy are flattened into two keys).
DetailResponse(kind, name, symbol, md) ==
    [kind |-> kind, name |-> name, symbol |-> symbol, market_data |-> md]

DetailResponses ==
    { DetailResponse("error", None, None, <<>>) }
        \cup { DetailResponse("ok", n[1], n[2], md) :
                 n \in { <<None, None>>, << <<<<"E","t","h","e","r","e","u","m">>>>, <<<<"e","t","h">>>> >> },
                 md \in Dicts({"fully_diluted_valuation_usd",
                               "fully_diluted_valuation_jpy",
                               "circulating_supply", "total_supply",
                               "max_supply"}, Stats) }

\* one gateway call: the endpoint, the identifier asked for, and how it ended
\* ("pending" until its response is handled)
Call(endpoint, id) == [endpoint |-> endpoint, id |-> id, result |-> "pending"]

\* how a response ends the call that asked for it
Outcome(kind, entry) ==
    IF kind = "error" THEN "error" ELSE IF entry = None THEN "missing" ELSE "ok"

\* the pending call, the last one issued, is given its outcome
Returned(cs, result) == [cs EXCEPT ![Len(cs)].result = result]

-----------------------------------------------------------------------------
(* get_price and get_market_data *)

\* get_price: the pair (usd_price, jpy_price), (None, None) on a failure or
\* when the identifier is not in the response
get_price(resp) ==
    IF resp.kind = "error" \/ resp.entry = None
    THEN [usd |-> None, jpy |-> None]
    ELSE [usd |-> Get(resp.entry[1], "usd"), jpy |-> Get(resp.entry[1], "jpy")]

\* a mutant of get_market_data: the spot failure is swallowed and the
\* function goes on with an empty coin_data
market_spot_entry_ignores_failure(resp) ==
    IF resp.entry = None THEN << <<>> >> ELSE resp.entry

\* get_market_data up to its second request: data[coin_id], or None when the
\* spot request failed or the identifier is not in the response (the
\* function then returns None without a second request)
market_spot_entry(resp) ==
    IF resp.kind = "error" THEN None
    ELSE IF resp.entry = None THEN None
    ELSE resp.entry

\* the dict returned when the detail request succeeded
full_snapshot(cd, detail) ==
    [ name |-> IF detail.name = None THEN <<>> ELSE detail.name[1],
      symbol |-> IF detail.symbol = None THEN <<>> ELSE upper(detail.symbol[1]),
      usd_price |-> Get(cd, "usd"),
      jpy_price |-> Get(cd, "jpy"),
      market_cap_usd |-> Get(cd, "usd_market_cap"),
      market_cap_jpy |-> Get(cd, "jpy_market_cap"),
      fully_diluted_valuation_usd |-> Get(detail.market_data, "fully_diluted_valuation_usd"),
      fully_diluted_valuation_jpy |-> Get(detail.market_data, "fully_diluted_valuation_jpy"),
      total_volume_24h_usd |-> Get(cd, "usd_24h_vol"),
      total_volume_24h_jpy |-> Get(cd, "jpy_24h_vol"),
      circulating_supply |-> Get(detail.market_data, "circulating_supply"),
      total_supply |-> Get(detail.market_data, "total_supply"),
      max_supply |-> Get(detail.market_data, "max_supply") ]

\* a mutant of the degraded snapshot: the symbol is the identifier as sent
degraded_snapshot_symbol_not_uppercased(id, cd) ==
    [ name |-> <<>>,
      symbol |-> id,
      usd_price |-> Get(cd, "usd"),
      jpy_price |-> Get(cd, "jpy"),
      market_cap_usd |-> Get(cd, "usd_market_cap"),
      market_cap_jpy |-> Get(cd, "jpy_market_cap"),
      total_volume_24h_usd |-> Get(cd, "usd_24h_vol"),
      total_volume_24h_jpy |-> Get(cd, "jpy_24h_vol") ]

\* the dict returned when the detail request failed
degraded_snapshot(id, cd) ==
    [ name |-> <<>>,
      symbol |-> upper(id),
      usd_price |-> Get(cd, "usd"),
      jpy_price |-> Get(cd, "jpy"),
      market_cap_usd |-> Get(cd, "usd_market_cap"),
      market_cap_jpy |-> Get(cd, "jpy_market_cap"),
      total_volume_24h_usd |-> Get(cd, "usd_24h_vol"),
      total_volume_24h_jpy |-> Get(cd, "jpy_24h_vol") ]

\* a mutant of get_market_data: a failed detail request fails the whole call
market_snapshot_no_degrade(id, cd, detail) ==
    IF detail.kind = "error" THEN None ELSE <<full_snapshot(cd, detail)>>

\* get_market_data from its second request on: the value it returns
market_snapshot(id, cd, detail) ==
    IF detail.kind = "error"
    THEN <<degraded_snapshot(id, cd)>>
    ELSE <<full_snapshot(cd, detail)>>

-----------------------------------------------------------------------------
(* show_price *)

\* one line of standard output
Line(kind, name, sym, val, text) ==
    [kind |-> kind, name |-> name, sym |-> sym, val |-> val, text |-> text]

\* what a run of a handler leaves behind
Result(out, err, status) == [stdout |-> out, stderr |-> err, exit_status |-> status]

\* market_data.get(key) on the dict get_market_data returned
MdGet(md, k) == IF k \in DOMAIN md THEN md[k] ELSE None

\* Python truth of an Optional number: present and not zero
Truthy(o) == o # None /\ o[1] # 0

\* print(...) guarded by a condition
PrintIf(cond, line) == IF cond THEN <<line>> ELSE <<>>

\* the lines show_price prints once the prices are known to be present
Report(coin_name, md) ==
    LET display_name   == IF "name" \in DOMAIN md THEN md["name"] ELSE <<>>
        display_symbol == IF "symbol" \in DOMAIN md THEN md["symbol"] ELSE upper(coin_name)
        Header(kind)   == Line(kind, display_name, display_symbol, None, <<>>)
        Stat(k)        == PrintIf(Truthy(MdGet(md, k)),
                                  Line(k, <<>>, <<>>, MdGet(md, k), <<>>))
        Supply(k)      == PrintIf(MdGet(md, k) # None,
                                  Line(k, <<>>, display_symbol, MdGet(md, k), <<>>))
    IN  << Header("header_price"),
           Line("usd_price", <<>>, <<>>, md["usd_price"], <<>>),
           Line("jpy_price", <<>>, <<>>, md["jpy_price"], <<>>),
           Line("blank", <<>>, <<>>, None, <<>>),
           Header("header_market") >>
        \o Stat("market_cap_usd") \o Stat("market_cap_jpy")
        \o Stat("fully_diluted_valuation_usd") \o Stat("fully_diluted_valuation_jpy")
        \o Stat("total_volume_24h_usd") \o Stat("total_volume_24h_jpy")
        \o << Line("blank", <<>>, <<>>, None, <<>>), Header("header_supply") >>
        \o Supply("circulating_supply") \o Supply("total_supply") \o Supply("max_supply")

\* a mutant of show_price: the price header is printed before the prices are
\* checked
show_price_prints_header_first(coin_name, md) ==
    IF md = None
    THEN Result(<<>>, <<"price_unavailable">>, <<1>>)
    ELSE IF MdGet(md[1], "usd_price") = None \/ MdGet(md[1], "jpy_price") = None
    THEN Result(<<Line("header_price", md[1]["name"], md[1]["symbol"], None, <<>>)>>,
                <<"price_unavailable">>, <<1>>)
    ELSE Result(Report(coin_name, md[1]), <<>>, <<0>>)

\* show_price after get_market_data returned md
show_price(coin_name, md) ==
    IF md = None \/ MdGet(md[1], "usd_price") = None \/ MdGet(md[1], "jpy_price") = None
    THEN Result(<<>>, <<"price_unavailable">>, <<1>>)
    ELSE Result(Report(coin_name, md[1]), <<>>, <<0>>)

-----------------------------------------------------------------------------
(* convert_currency and main *)

\* a mutant of the branch test: only the ticker table is consulted
rate_path_tickers_only(from_currency) ==
    IF from_currency = <<"J","P","Y">> THEN "jpy"
    ELSE IF from_currency = <<"U","S","D">> THEN "usd"
    ELSE IF InMappingKeys(upper(from_currency)) THEN "crypto"
    ELSE "unsupported"

\* the branch of convert_currency that from_currency selects
rate_path(from_currency) ==
    IF from_currency = <<"J","P","Y">> THEN "jpy"
    ELSE IF from_currency = <<"U","S","D">> THEN "usd"
    ELSE IF InMappingKeys(upper(from_currency)) \/ InMappingValues(lower(from_currency))
    THEN "crypto"
    ELSE "unsupported"

\* the price the JPY and the USD branch read off get_price's pair
rate_price(p, q) == IF p = "jpy" THEN q.jpy ELSE q.usd

\* where main stands when it issues its first gateway call or exits
Step(p, pr, id, from_id, cs, next_pc, err, status) ==
    [path |-> p, parsed |-> pr, coin_id |-> id, from_coin_id |-> from_id,
     calls |-> cs, pc |-> next_pc, stderr |-> err, exit_status |-> status]

\* convert_currency up to its first gateway call
convert_currency(pr, to_coin) ==
    LET from_currency == pr.currency[1]
        p             == rate_path(from_currency)
        to_id         == get_coin_id(to_coin)
        from_id       == get_coin_id(from_currency)
    IN  IF p \in {"jpy", "usd"}
        THEN IF to_id = <<>>
             THEN Step(p, pr, to_id, <<>>, <<>>, "done", <<"unsupported_coin">>, <<1>>)
             ELSE Step(p, pr, to_id, <<>>, <<Call("simple/price", to_id)>>,
                       "get_price", <<>>, None)
        ELSE IF p = "crypto"
        THEN IF from_id = <<>> \/ to_id = <<>>
             THEN Step(p, pr, to_id, from_id, <<>>, "done", <<"unsupported_coin">>, <<1>>)
             ELSE Step(p, pr, to_id, from_id, <<Call("simple/price", from_id)>>,
                       "get_price_from", <<>>, None)
        ELSE Step(p, pr, <<>>, <<>>, <<>>, "done", <<"unsupported_currency">>, <<1>>)

\* main up to its first gateway call
main_dispatch(args) ==
    IF Len(args) = 0
    THEN Step("usage", NoneNone, <<>>, <<>>, <<>>, "done", <<"usage">>, <<1>>)
    ELSE IF Len(args) = 1
    THEN IF get_coin_id(args[1]) = <<>>
         THEN Step("display", NoneNone, <<>>, <<>>, <<>>, "done",
                   <<"unsupported_coin">>, <<1>>)
         ELSE Step("display", NoneNone, get_coin_id(args[1]), <<>>,
                   <<Call("simple/price", get_coin_id(args[1]))>>,
                   "get_market_data", <<>>, None)
    ELSE IF Len(args) = 2
    THEN LET pr == parse_amount_and_currency(args[1])
         IN  IF pr.amount = None \/ pr.currency = None
             THEN Step("invalid_amount", pr, <<>>, <<>>, <<>>, "done",
                       <<"invalid_amount">>, <<1>>)
             ELSE convert_currency(pr, args[2])
    ELSE Step("too_many_arguments", NoneNone, <<>>, <<>>, <<>>, "done",
              <<"too_many_arguments">>, <<1>>)

\* the end of the invocation: what the handler wrote, and the exit status
Halt(r) ==
    /\ pc' = "done"
    /\ stdout' = stdout \o r.stdout
    /\ stderr' = stderr \o r.stderr
    /\ exit_status' = r.exit_status

\* the stderr line get_price and get_market_data write on a failed request
ApiError(resp) == IF resp.kind = "error" THEN <<"api_request_failed">> ELSE <<>>

\* amount / price or amount * from_price / to_price, and the line printed:
\* ZeroDivisionError (an uncaught exception: traceback, status 1) when the
\* divisor is 0
Quantity(num, den) ==
    IF den = 0
    THEN /\ crypto_amount' = None
         /\ Halt(Result(<<>>, <<"ZeroDivisionError">>, <<1>>))
    ELSE /\ crypto_amount' = <<[num |-> num, den |-> den]>>
         /\ \E t \in format_crypto_amount(num, den, argv[2]) :
                Halt(Result(<<Line("amount", <<>>, <<>>, None, t)>>, <<>>, <<0>>))

main ==
    /\ pc = "start"
    /\ \E m \in {main_dispatch(argv)} :
           /\ path' = m.path
           /\ parsed' = m.parsed
           /\ coin_id' = m.coin_id
           /\ from_coin_id' = m.from_coin_id
           /\ calls' = m.calls
           /\ pc' = m.pc
           /\ stderr' = m.stderr
           /\ exit_status' = m.exit_status
    /\ UNCHANGED <<argv, stdout, coin_data, market_data, quote, from_usd_price,
                   crypto_amount>>

\* show_price: get_market_data's spot request returns
get_market_data_returns(resp) ==
    /\ calls' = IF market_spot_entry(resp) = None
                THEN Returned(calls, Outcome(resp.kind, resp.entry))
                ELSE Append(Returned(calls, Outcome(resp.kind, resp.entry)),
                            Call("coins", coin_id))
    /\ coin_data' = market_spot_entry(resp)
    /\ IF market_spot_entry(resp) = None
       THEN LET r == show_price(argv[1], None)
            IN  Halt(Result(r.stdout, ApiError(resp) \o r.stderr, r.exit_status))
       ELSE /\ pc' = "get_market_data_detail"
            /\ UNCHANGED <<stdout, stderr, exit_status>>
    /\ UNCHANGED <<argv, path, parsed, coin_id, from_coin_id, market_data, quote,
                   from_usd_price, crypto_amount>>

\* show_price: get_market_data's detail request returns, and the report is
\* printed
get_market_data_detail_returns(resp) ==
    /\ calls' = Returned(calls, IF resp.kind = "error" THEN "error" ELSE "ok")
    /\ market_data' = market_snapshot(coin_id, coin_data[1], resp)
    /\ Halt(show_price(argv[1], market_snapshot(coin_id, coin_data[1], resp)))
    /\ UNCHANGED <<argv, path, parsed, coin_id, from_coin_id, coin_data, quote,
                   from_usd_price, crypto_amount>>

\* convert_currency, JPY and USD branch: get_price returns
convert_fiat_returns(resp) ==
    /\ calls' = Returned(calls, Outcome(resp.kind, resp.entry))
    /\ quote' = get_price(resp)
    /\ IF rate_price(path, get_price(resp)) = None
       THEN /\ crypto_amount' = None
            /\ Halt(Result(<<>>, ApiError(resp) \o <<"price_unavailable">>, <<1>>))
       ELSE Quantity(parsed.amount[1].num,
                     parsed.amount[1].den * rate_price(path, get_price(resp))[1])
    /\ UNCHANGED <<argv, path, parsed, coin_id, from_coin_id, coin_data, market_data,
                   from_usd_price>>

\* convert_currency, crypto branch: get_price(from_coin_id) returns and
\* get_price(to_coin_id) is called
convert_crypto_from_returns(resp) ==
    /\ calls' = Append(Returned(calls, Outcome(resp.kind, resp.entry)),
                       Call("simple/price", coin_id))
    /\ quote' = get_price(resp)
    /\ from_usd_price' = get_price(resp).usd
    /\ stderr' = stderr \o ApiError(resp)
    /\ pc' = "get_price_to"
    /\ UNCHANGED <<argv, stdout, exit_status, path, parsed, coin_id, from_coin_id,
                   coin_data, market_data, crypto_amount>>

\* convert_currency, crypto branch: get_price(to_coin_id) returns
convert_crypto_to_returns(resp) ==
    /\ calls' = Returned(calls, Outcome(resp.kind, resp.entry))
    /\ quote' = get_price(resp)
    /\ IF from_usd_price = None \/ get_price(resp).usd = None
       THEN /\ crypto_amount' = None
            /\ Halt(Result(<<>>, ApiError(resp) \o <<"price_unavailable">>, <<1>>))
       ELSE Quantity(parsed.amount[1].num * from_usd_price[1],
                     parsed.amount[1].den * get_price(resp).usd[1])
    /\ UNCHANGED <<argv, path, parsed, coin_id, from_coin_id, coin_data, market_data,
                   from_usd_price>>

-----------------------------------------------------------------------------
(* The program: one invocation per behaviour *)

\* the arguments "1<ticker>", "1<identifier>" in both letter cases, for
\* every item of the table, with BTC as the target
TableArgvs ==
    UNION { { <<<<"1">> \o e[1], <<"B","T","C">>>>, <<<<"1">> \o lower(e[1]), <<"B","T","C">>>>,
              <<<<"1">> \o e[2], <<"B","T","C">>>>, <<<<"1">> \o upper(e[2]), <<"B","T","C">>>> } :
            e \in COIN_MAPPING }

\* the command lines the model runs
Argvs ==
    { <<>>,
      <<<<"e","t","h">>>>, <<<<>>>>,
      <<<<"1","0","0","J","P","Y">>, <<"E","T","H">>>>, <<<<"0","J","P","Y">>, <<"E","T","H">>>>, <<<<"1","0","0","j","p","y">>, <<>>>>,
      <<<<"5","0","U","S","D">>, <<"b","t","c">>>>, <<<<"1",",","2","0","0",".","5","0","u","s","d">>, <<"E","T","H">>>>,
      <<<<"1","e","t","h">>, <<"E","T","H">>>>, <<<<"1","E","T","H">>, <<"P","e","p","e">>>>, <<<<"2","b","i","t","c","o","i","n">>, <<"a","v","a","l","a","n","c","h","e","-","2">>>>,
      <<<<"1","0","0","E","U","R">>, <<"E","T","H">>>>, <<<<"1","P","E","P","E">>, <<"E","T","H">>>>,
      <<<<"U","S","D">>, <<"E","T","H">>>>, <<<<"1","0","0">>, <<"E","T","H">>>>, <<<<"1",".","2",".","3","U","S","D">>, <<"E","T","H">>>>,
      <<<<",","U","S","D">>, <<"E","T","H">>>>,
      <<<<"1","U","S","D">>, <<"E","T","H">>, <<"B","T","C">>>> }
        \cup TableArgvs

Init ==
    /\ argv \in Argvs
    /\ pc = "start"
    /\ calls = <<>>
    /\ stdout = <<>>
    /\ stderr = <<>>
    /\ exit_status = None
    /\ path = "none"
    /\ parsed = NoneNone
    /\ coin_id = <<>>
    /\ from_coin_id = <<>>
    /\ coin_data = None
    /\ market_data = None
    /\ quote = [usd |-> None, jpy |-> None]
    /\ from_usd_price = None
    /\ crypto_amount = None

\* each gateway call returns with one of the responses its endpoint can give
get_market_data_spot ==
    /\ pc = "get_market_data"
    /\ \E resp \in MarketResponses : get_market_data_returns(resp)

get_market_data_detail ==
    /\ pc = "get_market_data_detail"
    /\ \E resp \in DetailResponses : get_market_data_detail_returns(resp)

convert_fiat ==
    /\ pc = "get_price"
    /\ \E resp \in PriceResponses : convert_fiat_returns(resp)

convert_crypto_from ==
    /\ pc = "get_price_from"
    /\ \E resp \in PriceResponses : convert_crypto_from_returns(resp)

convert_crypto_to ==
    /\ pc = "get_price_to"
    /\ \E resp \in PriceResponses : convert_crypto_to_returns(resp)

Next ==
    \/ main
    \/ get_market_data_spot
    \/ get_market_data_detail
    \/ convert_fiat
    \/ convert_crypto_from
    \/ convert_crypto_to

Spec == Init /\ [][Next]_vars

-----------------------------------------------------------------------------
(* The amount parser on its own: every short argument over an alphabet that
   holds a member of each character class of the grammar, and the examples
   of the documentation *)

ParseAlphabet == {"1", "0", ",", ".", "u", "S", "-", "\n"}

ParseSamples ==
    { <<"1",",","2","0","0",".","5","0","u","s","d">>, <<"U","S","D">>, <<"1","0","0">>, <<"1",".","2",".","3","U","S","D">>, <<"1","0","0","J","P","Y">>,
      <<",",",",",","U","S","D">>, <<"1","0","0","U","S","D","\n">>, <<"1","u","s","d","-","c","o","i","n">>, <<"1","a","v","a","l","a","n","c","h","e","-","2">> }

ParseInputs ==
    UNION { [1..n -> ParseAlphabet] : n \in 0..MaxArgLen } \cup ParseSamples

InitParse ==
    /\ argv \in { <<a>> : a \in ParseInputs }
    /\ pc = "parse"
    /\ calls = <<>>
    /\ stdout = <<>>
    /\ stderr = <<>>
    /\ exit_status = None
    /\ path = "none"
    /\ parsed = NoneNone
    /\ coin_id = <<>>
    /\ from_coin_id = <<>>
    /\ coin_data = None
    /\ market_data = None
    /\ quote = [usd |-> None, jpy |-> None]
    /\ from_usd_price = None
    /\ crypto_amount = None

parse_step ==
    /\ pc = "parse"
    /\ parsed' = parse_amount_and_currency(argv[1])
    /\ pc' = "parsed"
    /\ UNCHANGED <<argv, calls, stdout, stderr, exit_status, path, coin_id,
                   from_coin_id, coin_data, market_data, quote, from_usd_price,
                   crypto_amount>>

NextParse == parse_step

SpecParse == InitParse /\ [][NextParse]_vars

-----------------------------------------------------------------------------
(* The formatter of crypto quantities on its own: the multiples of 10^-8
   around the two band limits and around 0, and the two quantities of the
   documentation's examples *)

Unit == 10 ^ 8

FormatQuantities ==
    { [num |-> n, den |-> Unit] :
        n \in (0..FormatWindow)
              \cup ((10000 - FormatWindow)..(10000 + FormatWindow))
              \cup ((Unit - FormatWindow)..(Unit + FormatWindow))
              \cup { 20000, 4000000, 99999950, 150500000, 1234567890 } }
        \cup { [num |-> 100, den |-> 500000], [num |-> 1 * 2000, den |-> 50000] }

InitFormat ==
    /\ argv \in { <<<<"1","E","T","H">>, c>> : c \in {<<"E","T","H">>, <<"B","T","C">>, <<"a","v","a","l","a","n","c","h","e","-","2">>} }
    /\ crypto_amount \in { <<q>> : q \in FormatQuantities }
    /\ pc = "format"
    /\ calls = <<>>
    /\ stdout = <<>>
    /\ stderr = <<>>
    /\ exit_status = None
    /\ path = "none"
    /\ parsed = NoneNone
    /\ coin_id = <<>>
    /\ from_coin_id = <<>>
    /\ coin_data = None
    /\ market_data = None
    /\ quote = [usd |-> None, jpy |-> None]
    /\ from_usd_price = None

format_step ==
    /\ pc = "format"
    /\ \E t \in format_crypto_amount(crypto_amount[1].num, crypto_amount[1].den, argv[2]) :
           stdout' = <<Line("amount", <<>>, <<>>, None, t)>>
    /\ pc' = "formatted"
    /\ UNCHANGED <<argv, calls, stderr, exit_status, path, parsed, coin_id,
                   from_coin_id, coin_data, market_data, quote, from_usd_price,
                   crypto_amount>>

NextFormat == format_step

SpecFormat == InitFormat /\ [][NextFormat]_vars

-----------------------------------------------------------------------------
(* Properties *)

\* the kinds of the lines written to standard output
StdoutKinds == { stdout[i].kind : i \in 1..Len(stdout) }

\* the header lines written to standard output
Headers ==
    { stdout[i] : i \in { j \in 1..Len(stdout) :
                            stdout[j].kind \in {"header_price", "header_market",
                                                "header_supply"} } }

\* the nine optional fields of a snapshot, each with a line of its own
OptionalFields ==
    { "market_cap_usd", "market_cap_jpy",
      "fully_diluted_valuation_usd", "fully_diluted_valuation_jpy",
      "total_volume_24h_usd", "total_volume_24h_jpy",
      "circulating_supply", "total_supply", "max_supply" }

\* the snapshot fields read off the spot-price response, with their key there
SpotKey(k) ==
    CASE k = "usd_price" -> "usd"
      [] k = "jpy_price" -> "jpy"
      [] k = "market_cap_usd" -> "usd_market_cap"
      [] k = "market_cap_jpy" -> "jpy_market_cap"
      [] k = "total_volume_24h_usd" -> "usd_24h_vol"
      [] k = "total_volume_24h_jpy" -> "jpy_24h_vol"

SpotFields ==
    { "usd_price", "jpy_price", "market_cap_usd", "market_cap_jpy",
      "total_volume_24h_usd", "total_volume_24h_jpy" }

\* the whole output of a successful invocation
CompleteOutput ==
    IF path = "display"
    THEN /\ Len(stdout) >= 7
         /\ <<stdout[1].kind, stdout[2].kind, stdout[3].kind, stdout[4].kind,
              stdout[5].kind>>
              = <<"header_price", "usd_price", "jpy_price", "blank", "header_market">>
         /\ stdout[2].val # None /\ stdout[3].val # None
         /\ "header_supply" \in StdoutKinds
    ELSE /\ path \in {"jpy", "usd", "crypto"}
         /\ Len(stdout) = 1
         /\ stdout[1].kind = "amount"
         /\ stdout[1].text # <<>>

\* C1: an invocation that ends in a failure has written nothing to standard
\* output and exits with status 1; standard output is written only by the
\* step that ends the invocation with status 0, and then it holds the
\* complete report or the converted quantity.
C1_NoPartialOutput ==
    /\ (pc = "done") <=> (exit_status # None)
    /\ exit_status \in {None, <<0>>, <<1>>}
    /\ exit_status = <<1>> => stdout = <<>> /\ stderr # <<>>
    /\ stdout # <<>> => exit_status = <<0>>
    /\ exit_status = <<0>> => CompleteOutput

\* C1 witness: a display that fails after the gateway answered (a price is
\* absent), with nothing on standard output
C1_Witness ==
    /\ pc = "done" /\ path = "display" /\ exit_status = <<1>>
    /\ Len(calls) = 2 /\ calls[1].result = "ok"
    /\ stdout = <<>>

\* the display path ended with a successful spot-price call carrying both
\* prices and a failed extended-statistics call
DegradedWithPrices ==
    /\ pc = "done" /\ path = "display"
    /\ Len(calls) = 2 /\ calls[1].result = "ok" /\ calls[2].result = "error"
    /\ Get(coin_data[1], "usd") # None /\ Get(coin_data[1], "jpy") # None

\* C2: when the spot-price call succeeds with both prices and the
\* extended-statistics call fails, get_market_data returns a snapshot whose
\* numeric fields are exactly those of the spot-price response, and
\* show_price succeeds: it prints the price section and the lines of the
\* spot-derived statistics, no fully-diluted-valuation or supply line, and
\* exits with status 0.
C2_DegradedSucceeds ==
    DegradedWithPrices =>
        /\ market_data # None
        /\ DOMAIN market_data[1] = SpotFields \cup {"name", "symbol"}
        /\ \A k \in SpotFields : market_data[1][k] = Get(coin_data[1], SpotKey(k))
        /\ exit_status = <<0>>
        /\ stderr = <<>>
        /\ CompleteOutput
        /\ stdout[2].val = Get(coin_data[1], "usd")
        /\ stdout[3].val = Get(coin_data[1], "jpy")
        /\ StdoutKinds \cap { "fully_diluted_valuation_usd", "fully_diluted_valuation_jpy",
                              "circulating_supply", "total_supply", "max_supply" } = {}
        /\ \A i \in 1..Len(stdout) :
               stdout[i].kind \in SpotFields =>
                   stdout[i].val = Get(coin_data[1], SpotKey(stdout[i].kind))
                       /\ stdout[i].val # None
        /\ \A k \in SpotFields :
               Truthy(Get(coin_data[1], SpotKey(k))) => k \in StdoutKinds

\* C2 witness: a degraded report that shows a market cap and a volume
C2_Witness ==
    /\ DegradedWithPrices
    /\ {"market_cap_usd", "total_volume_24h_jpy"} \subseteq StdoutKinds

\* the display path ended with a failed extended-statistics call
Degraded ==
    /\ pc = "done" /\ path = "display"
    /\ Len(calls) = 2 /\ calls[2].result = "error"

\* C3 as stated: in the degraded snapshot the display name and the display
\* symbol are both the identifier sent to the gateway, and the headers of
\* the report show that identifier.
C3_FallbackIsIdentifier ==
    Degraded =>
        /\ market_data[1]["name"] = coin_id
        /\ market_data[1]["symbol"] = coin_id
        /\ \A h \in Headers : h.name = coin_id /\ h.sym = coin_id

\* C3 amended: in the degraded snapshot the display name is empty and the
\* display symbol is the identifier uppercased; the three headers of the
\* report show that uppercased identifier alone, without a name.
C3_FallbackIsUppercasedIdentifier ==
    Degraded =>
        /\ market_data[1]["name"] = <<>>
        /\ market_data[1]["symbol"] = upper(coin_id)
        /\ \A h \in Headers : h.name = <<>> /\ h.sym = upper(coin_id)
        /\ exit_status = <<0>> => Cardinality(Headers) = 3

\* C3 witness: a degraded report was printed
C3_Witness == Degraded /\ exit_status = <<0>> /\ Headers # {}

\* C4: in a successful report the line of each of the nine optional fields
\* is printed if and only if the field is present in the snapshot, whatever
\* its value.
C4_LineIffPresent ==
    (pc = "done" /\ path = "display" /\ exit_status = <<0>>) =>
        \A k \in OptionalFields :
            (k \in StdoutKinds) <=> (MdGet(market_data[1], k) # None)

\* the grammar of the amount argument, on the uppercased argument u: a run
\* u[1..a] of digits and commas, then u[a+1..b], empty or a decimal point
\* followed by digits only, then one or more letters up to the end
Grammar(u, a, b) ==
    /\ 1 <= a /\ a <= b /\ b < Len(u)
    /\ \A i \in 1..a : IsDigitChar(u[i]) \/ u[i] = ","
    /\ b > a => u[a + 1] = "."
    /\ \A i \in (a + 2)..b : IsDigitChar(u[i])
    /\ \A i \in (b + 1)..Len(u) : IsUpperChar(u[i])
    /\ \E i \in 1..b : IsDigitChar(u[i])

\* the number the numeric group u[1..b] denotes with its commas removed
GrammarValue(u, a, b) ==
    [num |-> DigitsValue(SelectSeq(SubSeq(u, 1, b), IsDigitChar)),
     den |-> 10 ^ (IF b > a THEN b - a - 1 ELSE 0)]

\* C5: parse_amount_and_currency succeeds exactly on the arguments of the
\* grammar whose numeric group holds a digit; on success the code is the
\* uppercased letter suffix and the value the number read with commas
\* removed; it fails on "USD", "100", "1.2.3USD" and on a numeric group made
\* only of commas.
C5_ParseIffGrammar ==
    pc = "parsed" =>
        LET u == upper(argv[1])
        IN  /\ (parsed.amount # None) <=>
                   (\E a \in 1..Len(u) : \E b \in a..Len(u) : Grammar(u, a, b))
            /\ (parsed.amount = None) <=> (parsed.currency = None)
            /\ \A a \in 1..Len(u) : \A b \in a..Len(u) :
                   (Grammar(u, a, b) /\ parsed.amount # None) =>
                       /\ parsed.currency[1] = SubSeq(u, b + 1, Len(u))
                       /\ parsed.amount[1] = GrammarValue(u, a, b)
            /\ argv[1] \in {<<"U","S","D">>, <<"1","0","0">>, <<"1",".","2",".","3","U","S","D">>, <<",",",",",","U","S","D">>}
                   => parsed = NoneNone
            /\ argv[1] = <<"1",",","2","0","0",".","5","0","u","s","d">>
                   => parsed = [amount |-> <<[num |-> 120050, den |-> 100]>>,
                                currency |-> <<<<"U","S","D">>>>]

\* a code the table knows, as a ticker or as an identifier
Recognized(code) ==
    \E e \in COIN_MAPPING : e[1] = code \/ e[2] = lower(code)

\* C6: the source currency code alone selects the rate path: JPY divides by
\* the target's JPY price, USD by the target's USD price, a table ticker or
\* identifier pivots through USD, and every other code ends in the
\* unsupported-currency error with status 1, no gateway call and nothing
\* printed; no code that is JPY, USD or recognized is rejected as
\* unsupported.
C6_RatePathByCode ==
    (pc # "start" /\ Len(argv) = 2 /\ parsed.currency # None) =>
        LET code   == parsed.currency[1]
            amount == parsed.amount[1]
        IN  /\ code = <<"J","P","Y">> =>
                   /\ path = "jpy"
                   /\ exit_status = <<0>> =>
                          crypto_amount = <<[num |-> amount.num,
                                             den |-> amount.den * quote.jpy[1]]>>
            /\ code = <<"U","S","D">> =>
                   /\ path = "usd"
                   /\ exit_status = <<0>> =>
                          crypto_amount = <<[num |-> amount.num,
                                             den |-> amount.den * quote.usd[1]]>>
            /\ (code \notin {<<"J","P","Y">>, <<"U","S","D">>} /\ Recognized(code)) =>
                   /\ path = "crypto"
                   /\ exit_status = <<0>> =>
                          crypto_amount = <<[num |-> amount.num * from_usd_price[1],
                                             den |-> amount.den * quote.usd[1]]>>
            /\ (code \notin {<<"J","P","Y">>, <<"U","S","D">>} /\ ~Recognized(code)) =>
                   /\ path = "unsupported"
                   /\ pc = "done" /\ exit_status = <<1>>
                   /\ stdout = <<>> /\ calls = <<>>
                   /\ stderr = <<"unsupported_currency">>
            /\ "unsupported_currency" \in { stderr[i] : i \in 1..Len(stderr) }
                   => (code \notin {<<"J","P","Y">>, <<"U","S","D">>} /\ ~Recognized(code))
            /\ exit_status = <<0>> => stdout[1].text \in
                   format_crypto_amount(crypto_amount[1].num, crypto_amount[1].den, argv[2])

\* C6 witness: 100EUR is rejected as unsupported
C6_Witness ==
    /\ pc = "done" /\ argv = <<<<"1","0","0","E","U","R">>, <<"E","T","H">>>>
    /\ path = "unsupported" /\ exit_status = <<1>>

\* the text is digits, a decimal point, exactly d digits, then the symbol
HasDecimals(text, d, symbol) ==
    \E p \in 2..Len(text) :
        /\ text[p] = "."
        /\ \A i \in 1..(p - 1) : IsDigitChar(text[i])
        /\ Len(text) = p + d + Len(symbol)
        /\ \A i \in (p + 1)..(p + d) : IsDigitChar(text[i])
        /\ SubSeq(text, p + d + 1, Len(text)) = symbol

\* C7: format_crypto_amount renders a non-negative multiple n of 10^-8 with
\* exactly 8 decimals when n * 10^-8 < 0.0001, 6 when 0.0001 <= n * 10^-8 < 1
\* and 2 when n * 10^-8 >= 1, keeps the trailing zeros and appends the symbol
\* directly; 0.0002 of ETH is "0.000200ETH" and 1 * 2000 / 50000 of BTC is
\* "0.040000BTC".
C7_DecimalBands ==
    pc = "formatted" =>
        LET q    == crypto_amount[1]
            text == stdout[1].text
        IN  /\ q.den = Unit =>
                   HasDecimals(text,
                               IF q.num < 10000 THEN 8 ELSE IF q.num < Unit THEN 6 ELSE 2,
                               argv[2])
            /\ (q = [num |-> 100, den |-> 500000] /\ argv[2] = <<"E","T","H">>)
                   => text = <<"0",".","0","0","0","2","0","0","E","T","H">>
            /\ (q = [num |-> 2000, den |-> 50000] /\ argv[2] = <<"B","T","C">>)
                   => text = <<"0",".","0","4","0","0","0","0","B","T","C">>
            /\ (q = [num |-> 20000, den |-> Unit] /\ argv[2] = <<"E","T","H">>)
                   => text = <<"0",".","0","0","0","2","0","0","E","T","H">>

\* C7 witness: the quantity 100 / 500000 of ETH has been formatted
C7_Witness ==
    /\ pc = "formatted"
    /\ crypto_amount = <<[num |-> 100, den |-> 500000]>>
    /\ stdout[1].text = <<"0",".","0","0","0","2","0","0","E","T","H">>

\* C8: once a spot-price call has failed at the transport level no further
\* gateway call is made and the invocation ends with status 1.
C8_TransportFailureIsTerminal ==
    \A i \in 1..Len(calls) :
        (calls[i].endpoint = "simple/price" /\ calls[i].result = "error") =>
            /\ i = Len(calls)
            /\ pc = "done"
            /\ exit_status = <<1>>

\* at most two calls, one after the other, and the extended-statistics call
\* only after a spot-price call that returned an entry for the identifier
CallDiscipline ==
    /\ Len(calls) <= 2
    /\ \A i \in 1..Len(calls) : calls[i].result = "pending" => i = Len(calls)
    /\ (pc = "done") => \A i \in 1..Len(calls) : calls[i].result # "pending"
    /\ \A i \in 1..Len(calls) :
           calls[i].endpoint = "coins" =>
               /\ path = "display" /\ i = 2
               /\ calls[1].endpoint = "simple/price"
               /\ calls[1].result = "ok"
               /\ calls[1].id = calls[2].id
    /\ (path = "display" /\ Len(calls) >= 1 /\ calls[1].result \in {"error", "missing"})
           => Len(calls) = 1

\* two calls of one invocation that are the same request
SameRequest(i, j) ==
    calls[i].endpoint = calls[j].endpoint /\ calls[i].id = calls[j].id

\* C9 as stated: at most two gateway calls, one strictly after the other,
\* no request is ever issued twice, and the extended-statistics call is
\* issued only after the spot-price call returned an entry for the
\* identifier.
C9_NoRepeatedRequest ==
    /\ CallDiscipline
    /\ \A i \in 1..Len(calls) : \A j \in 1..Len(calls) : i # j => ~SameRequest(i, j)

\* C9 amended: at most two gateway calls, one strictly after the other; the
\* extended-statistics call is issued only after the spot-price call
\* returned an entry for the identifier; a request is issued twice only by
\* the crypto-to-crypto path, whose two spot-price calls are the same
\* request when source and target resolve to the same identifier.
C9_RepeatOnlySameAsset ==
    /\ CallDiscipline
    /\ \A i \in 1..Len(calls) : \A j \in 1..Len(calls) :
           (i # j /\ SameRequest(i, j)) =>
               /\ path = "crypto"
               /\ from_coin_id = coin_id
               /\ calls[i].endpoint = "simple/price"
    /\ (path = "crypto" /\ Len(calls) = 2) =>
           calls[1].id = from_coin_id /\ calls[2].id = coin_id

\* C9 witness: a conversion between two names of one asset asked for the
\* same spot price twice
C9_Witness ==
    /\ pc = "done" /\ path = "crypto" /\ Len(calls) = 2
    /\ SameRequest(1, 2)

\* C10: for every item of the table, "1<ticker>" and "1<identifier>" in any
\* letter case are parsed, take the crypto-to-crypto path and resolve to the
\* item's identifier.
C10_TickerOrIdentifierAccepted ==
    \A e \in COIN_MAPPING :
        (/\ pc # "start" /\ Len(argv) = 2 /\ Len(argv[1]) > 1
         /\ argv[1][1] = "1"
         /\ upper(Tail(argv[1])) \in {upper(e[1]), upper(e[2])}) =>
            /\ parsed.amount = <<[num |-> 1, den |-> 1]>>
            /\ path = "crypto"
            /\ from_coin_id = e[2]

====
